---- MODULE Spec2Model ----
(***************************************************************************)
(* Model of the two appointment back ends of mente_sana_backend:           *)
(*   - the full variant, src/server.js (table citas, soft delete through   *)
(*     estado, conflict check on create);                                  *)
(*   - the simplified variant, src/unnamed/part_000 (table                 *)
(*     citas_gratuitas, physical delete, reminder flags, n8n webhook).     *)
(* A run is a run of one of the two servers (variable variant).  Every SQL *)
(* statement is one atomic step of the database; a handler is cut only at  *)
(* the awaits where another request can run in between: between the SELECT *)
(* and the INSERT of the full create, and while the webhook fetch is in    *)
(* flight in the simplified create and delete.                             *)
(*                                                                         *)
(* Text columns nombre, apellido, email, telefono, motivo are validated    *)
(* and stored alike by the code; the model carries one of them, nombre.    *)
(* A missing body field (undefined in JS, NULL in SQL) is "" for text and  *)
(* SinValor for fecha and hora.                                            *)
(***************************************************************************)
EXTENDS Integers, Sequences, FiniteSets, TLC

\* ------------------------------------------------------------- bounds
MaxReq == 3        \* requests accepted in one run
MaxInFlight == 2   \* handlers suspended at an await at the same time
MaxFilas == 1      \* rows a table holds when the server starts

\* ------------------------------------------------------------- values
SinValor == 0                      \* an absent fecha / hora (falsy, NULL)
Hoy == 2                           \* CURRENT_DATE
Fechas == {1, 2}                   \* 1 is before today
Horas == {9, 10}
Franjas == {<<1, 9>>, <<2, 9>>, <<2, 10>>}   \* the slots requests ask for
Nombres == {"ana"}
Estados == {"confirmada", "cancelada", "pendiente"}
TiposFecha == {"24h", "2h", "1h_pasado"}
TiposRecordatorio == {"24h", "2h", "post"}
Resultados == {"ok", "no_ok", "throw"}   \* what the fetch of the webhook does

Ids == 1..MaxReq                   \* ids the sequence can hand out
\* the :id path segment of a request is text; "pendientes" is no number
IdParams == {"1", "2", "pendientes"}

\* the id a text parameter of WHERE id = $1 denotes; SinValor, which no row
\* has, when it denotes none
ParseId(s) ==
    IF \E i \in Ids : ToString(i) = s
    THEN CHOOSE i \in Ids : ToString(i) = s
    ELSE SinValor

VARIABLES
    variant,          \* "full" (src/server.js) or "simple" (part_000)
    webhookUrl,       \* process.env.N8N_WEBHOOK_URL is set
    citas,            \* rows of table citas (full)
    citas_gratuitas,  \* rows of table public.citas_gratuitas (simple)
    seq,              \* last value of the id sequence of the table
    pending,          \* handlers suspended at an await
    enviados,         \* webhook events handed to fetch, in order: the
                      \* evento and the id of the row in datos
    nreq,             \* responses sent so far
    resp              \* the last HTTP response sent

vars == <<variant, webhookUrl, citas, citas_gratuitas, seq, pending,
          enviados, nreq, resp>>

\* ------------------------------------------------------------ requests
\* the JSON body of a request; a field the client left out is "" / SinValor
Bodies ==
    [nombre : Nombres \cup {""}, fecha : Fechas \cup {SinValor},
     hora : Horas \cup {SinValor}, estado : Estados \cup {""},
     tipoFecha : TiposFecha \cup {"", "7d"},
     tipo : TiposRecordatorio \cup {"", "1h"}]

SinBody ==
    [nombre |-> "", fecha |-> SinValor, hora |-> SinValor, estado |-> "",
     tipoFecha |-> "", tipo |-> ""]

Req(method, path, body) == [method |-> method, path |-> path, body |-> body]

Respuesta(n, req, status, rows, wh) ==
    [n |-> n, req |-> req, status |-> status, rows |-> rows, wh |-> wh]

SinRespuesta == Respuesta(0, Req("", <<>>, SinBody), 0, {}, "ninguno")

\* ------------------------------------------------------------- routing
\* Express tries the routes in the order app.get/post/... registered them;
\* a pattern segment that starts with ":" matches any segment.
Param(seg) == seg \in {":id", ":fecha"}

Match(pattern, path) ==
    /\ Len(pattern) = Len(path)
    /\ \A k \in 1..Len(pattern) : Param(pattern[k]) \/ pattern[k] = path[k]

Ruta(method, pattern, handler) ==
    [method |-> method, pattern |-> pattern, handler |-> handler]

RutasFull ==
    << Ruta("GET", <<"api", "citas">>, "listar"),
       Ruta("GET", <<"api", "citas", ":id">>, "obtener"),
       Ruta("POST", <<"api", "citas">>, "crear"),
       Ruta("PUT", <<"api", "citas", ":id">>, "actualizar"),
       Ruta("DELETE", <<"api", "citas", ":id">>, "cancelar"),
       Ruta("GET", <<"api", "citas", "fecha", ":fecha">>, "porFecha"),
       Ruta("GET", <<"api", "citas", "pendientes">>, "pendientes") >>

RutasSimple ==
    << Ruta("GET", <<"api", "citas">>, "listar"),
       Ruta("POST", <<"api", "citas">>, "crear"),
       Ruta("DELETE", <<"api", "citas", ":id">>, "eliminar"),
       Ruta("PATCH", <<"api", "citas", ":id", "reset-flags">>, "resetFlags"),
       Ruta("PATCH", <<"api", "citas", ":id", "marcar-recordatorio">>,
            "marcarRecordatorio"),
       Ruta("PATCH", <<"api", "citas", "reset-flags", "all">>, "resetAll"),
       Ruta("DELETE", <<"api", "citas">>, "eliminarTodas") >>

Hits(rutas, req) ==
    {k \in 1..Len(rutas) :
        rutas[k].method = req.method /\ Match(rutas[k].pattern, req.path)}

FirstHit(rutas, req) ==
    CHOOSE k \in Hits(rutas, req) : \A j \in Hits(rutas, req) : k <= j

\* the handler that serves req, "" when no route matches
Route(rutas, req) ==
    IF Hits(rutas, req) = {} THEN "" ELSE rutas[FirstHit(rutas, req)].handler

\* --------------------------------------------------------- full variant
\* the conflict query without its estado condition (mutant)
ExistenteSinEstado(fecha, hora) ==
    {c \in citas : c.fecha = fecha /\ c.hora = hora}

\* the conflict query with estado = 'cancelada' for != (mutant)
ExistenteInvertida(fecha, hora) ==
    {c \in citas : c.fecha = fecha /\ c.hora = hora /\ c.estado = "cancelada"}

\* the conflict query without its hora condition (mutant)
ExistenteSoloFecha(fecha, hora) ==
    {c \in citas : c.fecha = fecha /\ c.estado # "" /\ c.estado # "cancelada"}

\* SELECT * FROM citas WHERE fecha = $1 AND hora = $2 AND estado != 'cancelada'
\* (a NULL estado compares unknown, so the row is not selected)
Existente(fecha, hora) ==
    {c \in citas : c.fecha = fecha /\ c.hora = hora
                   /\ c.estado # "" /\ c.estado # "cancelada"}

\* if (!nombre || ... || !fecha || !hora || !motivo)
FaltanCamposFull(b) == b.nombre = "" \/ b.fecha = SinValor \/ b.hora = SinValor

\* an INSERT that takes estado from the body when it has one (mutant)
FilaNuevaConEstado(id, b) ==
    [id |-> id, nombre |-> b.nombre, fecha |-> b.fecha, hora |-> b.hora,
     estado |-> IF b.estado = "" THEN "confirmada" ELSE b.estado]

\* the row INSERT ... RETURNING * gives back
FilaNueva(id, b) ==
    [id |-> id, nombre |-> b.nombre, fecha |-> b.fecha, hora |-> b.hora,
     estado |-> "confirmada"]

\* an UPDATE that leaves fecha and hora out of its SET list (mutant)
FilaActualizadaSinFranja(c, b) ==
    [id |-> c.id, nombre |-> b.nombre, fecha |-> c.fecha, hora |-> c.hora,
     estado |-> b.estado]

\* UPDATE citas SET nombre = $1, ..., estado = $9 WHERE id = $10
FilaActualizada(c, b) ==
    [id |-> c.id, nombre |-> b.nombre, fecha |-> b.fecha, hora |-> b.hora,
     estado |-> b.estado]

\* UPDATE citas SET estado = 'cancelada' WHERE id = $1
FilaCancelada(c) == [c EXCEPT !.estado = "cancelada"]

\* a WHERE clause that leaves the id out (mutant)
PorIdCualquiera(tabla, s) == tabla

\* WHERE id = $1
PorId(tabla, s) == {c \in tabla : c.id = ParseId(s)}

\* SELECT * FROM citas WHERE fecha >= CURRENT_DATE AND estado = 'confirmada'
FilasPendientes ==
    {c \in citas : c.fecha # SinValor /\ c.fecha >= Hoy
                   /\ c.estado = "confirmada"}

\* a handler waiting at an await: n is the arrival number of its request
Suspendido(req, pc, rows, wh) ==
    [n |-> nreq + Cardinality(pending) + 1, req |-> req, pc |-> pc,
     rows |-> rows, wh |-> wh]

Responder(req, status, rows, wh) ==
    /\ nreq' = nreq + 1
    /\ resp' = Respuesta(nreq + 1, req, status, rows, wh)

\* POST /api/citas up to the await of the INSERT
Crear(b) ==
    LET req == Req("POST", <<"api", "citas">>, b) IN
    /\ variant = "full"
    /\ nreq + Cardinality(pending) < MaxReq
    /\ Route(RutasFull, req) = "crear"
    /\ IF FaltanCamposFull(b)
       THEN /\ Responder(req, 400, {}, "ninguno")
            /\ UNCHANGED pending
       ELSE \E falla \in BOOLEAN :
            IF falla
            THEN /\ Responder(req, 500, {}, "ninguno")
                 /\ UNCHANGED pending
            ELSE IF Existente(b.fecha, b.hora) # {}
            THEN /\ Responder(req, 409, {}, "ninguno")
                 /\ UNCHANGED pending
            ELSE /\ Cardinality(pending) < MaxInFlight
                 /\ pending' = pending \cup
                       {Suspendido(req, "insert", {}, "ninguno")}
                 /\ UNCHANGED <<nreq, resp>>
    /\ UNCHANGED <<variant, webhookUrl, citas, citas_gratuitas, seq, enviados>>

\* an INSERT that runs the conflict query again and gives up with 409 when
\* the slot has been taken since (mutant)
CrearInsertConCheck(p) ==
    /\ variant = "full"
    /\ p \in pending /\ p.pc = "insert"
    /\ pending' = pending \ {p}
    /\ \E falla \in BOOLEAN :
        IF falla
        THEN /\ Responder(p.req, 500, {}, "ninguno")
             /\ UNCHANGED <<citas, seq>>
        ELSE IF Existente(p.req.body.fecha, p.req.body.hora) # {}
        THEN /\ Responder(p.req, 409, {}, "ninguno")
             /\ UNCHANGED <<citas, seq>>
        ELSE LET fila == FilaNueva(seq + 1, p.req.body) IN
             /\ citas' = citas \cup {fila}
             /\ seq' = seq + 1
             /\ Responder(p.req, 201, {fila}, "ninguno")
    /\ UNCHANGED <<variant, webhookUrl, citas_gratuitas, enviados>>

\* POST /api/citas from the INSERT to the response
CrearInsert(p) ==
    /\ variant = "full"
    /\ p \in pending /\ p.pc = "insert"
    /\ pending' = pending \ {p}
    /\ \E falla \in BOOLEAN :
        IF falla
        THEN /\ Responder(p.req, 500, {}, "ninguno")
             /\ UNCHANGED <<citas, seq>>
        ELSE LET fila == FilaNueva(seq + 1, p.req.body) IN
             /\ citas' = citas \cup {fila}
             /\ seq' = seq + 1
             /\ Responder(p.req, 201, {fila}, "ninguno")
    /\ UNCHANGED <<variant, webhookUrl, citas_gratuitas, enviados>>

\* GET /api/citas/<s>: the handler the route table picks
Get(s) ==
    LET req == Req("GET", <<"api", "citas", s>>, SinBody)
        h == Route(RutasFull, req) IN
    /\ variant = "full"
    /\ nreq + Cardinality(pending) < MaxReq
    /\ \E falla \in BOOLEAN :
        IF falla
        THEN Responder(req, 500, {}, "ninguno")
        ELSE CASE h = "obtener" ->
                    IF PorId(citas, s) = {}
                    THEN Responder(req, 404, {}, "ninguno")
                    ELSE Responder(req, 200, PorId(citas, s), "ninguno")
               [] h = "pendientes" ->
                    Responder(req, 200, FilasPendientes, "ninguno")
               [] OTHER -> Responder(req, 404, {}, "ninguno")
    /\ UNCHANGED <<variant, webhookUrl, citas, citas_gratuitas, seq, pending,
                   enviados>>

\* PUT /api/citas/<s>
Actualizar(s, b) ==
    LET req == Req("PUT", <<"api", "citas", s>>, b) IN
    /\ variant = "full"
    /\ nreq + Cardinality(pending) < MaxReq
    /\ Route(RutasFull, req) = "actualizar"
    /\ \E falla \in BOOLEAN :
        IF falla
        THEN /\ Responder(req, 500, {}, "ninguno")
             /\ UNCHANGED citas
        ELSE LET viejas == PorId(citas, s)
                 nuevas == {FilaActualizada(c, b) : c \in viejas} IN
             /\ citas' = (citas \ viejas) \cup nuevas
             /\ IF nuevas = {}
                THEN Responder(req, 404, {}, "ninguno")
                ELSE Responder(req, 200, nuevas, "ninguno")
    /\ UNCHANGED <<variant, webhookUrl, citas_gratuitas, seq, pending,
                   enviados>>

\* DELETE /api/citas/<s> (soft delete)
Cancelar(s) ==
    LET req == Req("DELETE", <<"api", "citas", s>>, SinBody) IN
    /\ variant = "full"
    /\ nreq + Cardinality(pending) < MaxReq
    /\ Route(RutasFull, req) = "cancelar"
    /\ \E falla \in BOOLEAN :
        IF falla
        THEN /\ Responder(req, 500, {}, "ninguno")
             /\ UNCHANGED citas
        ELSE LET viejas == PorId(citas, s)
                 nuevas == {FilaCancelada(c) : c \in viejas} IN
             /\ citas' = (citas \ viejas) \cup nuevas
             /\ IF nuevas = {}
                THEN Responder(req, 404, {}, "ninguno")
                ELSE Responder(req, 200, nuevas, "ninguno")
    /\ UNCHANGED <<variant, webhookUrl, citas_gratuitas, seq, pending,
                   enviados>>

BodiesFull ==
    {b \in Bodies :
        /\ b.tipoFecha = "" /\ b.tipo = ""
        /\ (b.fecha # SinValor /\ b.hora # SinValor
               => <<b.fecha, b.hora>> \in Franjas)}

\* create reads no estado from the body; one body carries one all the same
BodiesCrear ==
    {b \in BodiesFull :
        \/ b.estado = ""
        \/ b.estado = "cancelada" /\ b.nombre # "" /\ <<b.fecha, b.hora>> = <<Hoy, 9>>}

\* update bodies carry every field but, possibly, estado
BodiesActualizar == {b \in BodiesFull : ~FaltanCamposFull(b)}

NextFull ==
    \/ \E b \in BodiesCrear : Crear(b)
    \/ \E p \in pending : CrearInsert(p)
    \/ \E s \in IdParams : Get(s)
    \/ \E s \in IdParams, b \in BodiesActualizar : Actualizar(s, b)
    \/ \E s \in IdParams : Cancelar(s)

\* --------------------------------------------------- simplified variant
\* if (!nombre || !email || !telefono || !tipoFecha)
FaltanCamposSimple(b) == b.nombre = "" \/ b.tipoFecha = ""

\* switch (tipoFecha): hours added to now; the default branch answers 400
Desplazamiento(tipoFecha) ==
    CASE tipoFecha = "24h" -> 24
      [] tipoFecha = "2h" -> 2
      [] tipoFecha = "1h_pasado" -> 0 - 1

\* an INSERT whose id is the number of stored rows plus one (mutant)
FilaGratuitaIdPorCuenta(id, b) ==
    [id |-> Cardinality(citas_gratuitas) + 1, nombre |-> b.nombre,
     fecha_cita |-> Desplazamiento(b.tipoFecha),
     r24 |-> FALSE, r2 |-> FALSE, post |-> FALSE]

\* INSERT INTO public.citas_gratuitas ... VALUES (..., false, false, false)
FilaGratuita(id, b) ==
    [id |-> id, nombre |-> b.nombre,
     fecha_cita |-> Desplazamiento(b.tipoFecha),
     r24 |-> FALSE, r2 |-> FALSE, post |-> FALSE]

\* a reset that leaves recordatorio_post_enviado out (mutant)
FilaReseteadaSinPost(c) == [c EXCEPT !.r24 = FALSE, !.r2 = FALSE]

\* a reset of recordatorio_24h_enviado alone (mutant)
FilaReseteadaSolo24h(c) == [c EXCEPT !.r24 = FALSE]

\* SET recordatorio_24h_enviado = false, recordatorio_2h_enviado = false,
\*     recordatorio_post_enviado = false
FilaReseteada(c) == [c EXCEPT !.r24 = FALSE, !.r2 = FALSE, !.post = FALSE]

\* the column choice with the '2h' case falling through to 'post' (mutant)
ColumnaSin2h(tipo) == IF tipo = "24h" THEN "r24" ELSE "post"

\* const columna = `recordatorio_${...}_enviado`
Columna(tipo) ==
    IF tipo = "24h" THEN "r24" ELSE IF tipo = "2h" THEN "r2" ELSE "post"

\* an UPDATE that writes the three flag columns, the named one true and
\* the others false (mutant)
FilaMarcadaExclusiva(c, tipo) ==
    [c EXCEPT !.r24 = (Columna(tipo) = "r24"), !.r2 = (Columna(tipo) = "r2"),
              !.post = (Columna(tipo) = "post")]

\* SET ${columna} = NOT ${columna} (mutant)
FilaMarcadaAlterna(c, tipo) == [c EXCEPT ![Columna(tipo)] = ~@]

\* SET ${columna} = true
FilaMarcada(c, tipo) == [c EXCEPT ![Columna(tipo)] = TRUE]

\* the tipo validation without the includes test (mutant)
TipoInvalidoSoloVacio(tipo) == tipo = ""

\* if (!tipo || !['24h', '2h', 'post'].includes(tipo))
TipoInvalido(tipo) == tipo = "" \/ tipo \notin TiposRecordatorio

\* enviarWebhookN8n with no try/catch around fetch (mutant)
EnviarWebhookSinCatch(wh) ==
    CASE wh = "sin_url" -> "resuelve"
      [] wh = "ok" -> "resuelve"
      [] wh = "no_ok" -> "resuelve"
      [] wh = "throw" -> "rechaza"

\* enviarWebhookN8n: how its promise settles, given what the call met:
\* "sin_url" (no N8N_WEBHOOK_URL), or the outcome of fetch.  The try/catch
\* around fetch swallows the throw, a non-2xx reply is only logged.
EnviarWebhookN8n(wh) ==
    CASE wh = "sin_url" -> "resuelve"   \* if (!webhookUrl) return
      [] wh = "ok" -> "resuelve"        \* response.ok
      [] wh = "no_ok" -> "resuelve"     \* console.error, no throw
      [] wh = "throw" -> "resuelve"     \* catch (error) logs it

\* the status the handler answers once enviarWebhookN8n has settled: the
\* await sits inside the handler's try, a rejection lands in its catch
EstadoFinal(exito, wh) ==
    IF EnviarWebhookN8n(wh) = "resuelve" THEN exito ELSE 500

\* a notification that posts the event a second time (mutant)
NotificarDosVeces(req, evento, fila, exito) ==
    IF ~webhookUrl
    THEN /\ Responder(req, EstadoFinal(exito, "sin_url"),
                      IF EstadoFinal(exito, "sin_url") = exito
                      THEN {fila} ELSE {}, "sin_url")
         /\ UNCHANGED <<pending, enviados>>
    ELSE /\ Cardinality(pending) < MaxInFlight
         /\ enviados' = enviados \o <<[evento |-> evento, id |-> fila.id],
                                      [evento |-> evento, id |-> fila.id]>>
         /\ pending' = pending \cup {Suspendido(req, "fetch", {fila}, "ninguno")}
         /\ UNCHANGED <<nreq, resp>>

\* await enviarWebhookN8n(evento, fila), then the response
Notificar(req, evento, fila, exito) ==
    IF ~webhookUrl
    THEN /\ Responder(req, EstadoFinal(exito, "sin_url"),
                      IF EstadoFinal(exito, "sin_url") = exito
                      THEN {fila} ELSE {}, "sin_url")
         /\ UNCHANGED <<pending, enviados>>
    ELSE /\ Cardinality(pending) < MaxInFlight
         /\ enviados' = Append(enviados, [evento |-> evento, id |-> fila.id])
         /\ pending' = pending \cup {Suspendido(req, "fetch", {fila}, "ninguno")}
         /\ UNCHANGED <<nreq, resp>>

\* POST /api/citas
CrearGratuita(b) ==
    LET req == Req("POST", <<"api", "citas">>, b) IN
    /\ variant = "simple"
    /\ nreq + Cardinality(pending) < MaxReq
    /\ Route(RutasSimple, req) = "crear"
    /\ IF FaltanCamposSimple(b) \/ b.tipoFecha \notin TiposFecha
       THEN /\ Responder(req, 400, {}, "ninguno")
            /\ UNCHANGED <<citas_gratuitas, seq, pending, enviados>>
       ELSE \E falla \in BOOLEAN :
            IF falla
            THEN /\ Responder(req, 500, {}, "ninguno")
                 /\ UNCHANGED <<citas_gratuitas, seq, pending, enviados>>
            ELSE LET fila == FilaGratuita(seq + 1, b) IN
                 /\ citas_gratuitas' = citas_gratuitas \cup {fila}
                 /\ seq' = seq + 1
                 /\ Notificar(req, "cita_creada", fila, 201)
    /\ UNCHANGED <<variant, webhookUrl, citas>>

\* DELETE /api/citas/<s>
Eliminar(s) ==
    LET req == Req("DELETE", <<"api", "citas", s>>, SinBody) IN
    /\ variant = "simple"
    /\ nreq + Cardinality(pending) < MaxReq
    /\ Route(RutasSimple, req) = "eliminar"
    /\ \E falla \in BOOLEAN :
        IF falla
        THEN /\ Responder(req, 500, {}, "ninguno")
             /\ UNCHANGED <<citas_gratuitas, pending, enviados>>
        ELSE LET borradas == PorId(citas_gratuitas, s) IN
             IF borradas = {}
             THEN /\ Responder(req, 404, {}, "ninguno")
                  /\ UNCHANGED <<citas_gratuitas, pending, enviados>>
             ELSE /\ citas_gratuitas' = citas_gratuitas \ borradas
                  /\ Notificar(req, "cita_eliminada",
                               CHOOSE c \in borradas : TRUE, 200)
    /\ UNCHANGED <<variant, webhookUrl, citas, seq>>

\* the fetch of the webhook settles (a 2xx reply, another reply, or a
\* throw); the handler resumes after await enviarWebhookN8n(...) and answers
FetchSettles(p, r) ==
    LET exito == IF p.req.method = "POST" THEN 201 ELSE 200 IN
    /\ variant = "simple"
    /\ p \in pending /\ p.pc = "fetch"
    /\ pending' = pending \ {p}
    /\ Responder(p.req, EstadoFinal(exito, r),
                 IF EstadoFinal(exito, r) = exito THEN p.rows ELSE {}, r)
    /\ UNCHANGED <<variant, webhookUrl, citas, citas_gratuitas, seq, enviados>>

\* PATCH /api/citas/<s>/reset-flags
ResetFlags(s) ==
    LET req == Req("PATCH", <<"api", "citas", s, "reset-flags">>, SinBody) IN
    /\ variant = "simple"
    /\ nreq + Cardinality(pending) < MaxReq
    /\ Route(RutasSimple, req) = "resetFlags"
    /\ \E falla \in BOOLEAN :
        IF falla
        THEN /\ Responder(req, 500, {}, "ninguno")
             /\ UNCHANGED citas_gratuitas
        ELSE LET viejas == PorId(citas_gratuitas, s)
                 nuevas == {FilaReseteada(c) : c \in viejas} IN
             /\ citas_gratuitas' = (citas_gratuitas \ viejas) \cup nuevas
             /\ IF nuevas = {}
                THEN Responder(req, 404, {}, "ninguno")
                ELSE Responder(req, 200, nuevas, "ninguno")
    /\ UNCHANGED <<variant, webhookUrl, citas, seq, pending, enviados>>

\* PATCH /api/citas/<s>/marcar-recordatorio
MarcarRecordatorio(s, b) ==
    LET req == Req("PATCH", <<"api", "citas", s, "marcar-recordatorio">>, b) IN
    /\ variant = "simple"
    /\ nreq + Cardinality(pending) < MaxReq
    /\ Route(RutasSimple, req) = "marcarRecordatorio"
    /\ IF TipoInvalido(b.tipo)
       THEN /\ Responder(req, 400, {}, "ninguno")
            /\ UNCHANGED citas_gratuitas
       ELSE \E falla \in BOOLEAN :
            IF falla
            THEN /\ Responder(req, 500, {}, "ninguno")
                 /\ UNCHANGED citas_gratuitas
            ELSE LET viejas == PorId(citas_gratuitas, s)
                     nuevas == {FilaMarcada(c, b.tipo) : c \in viejas} IN
                 /\ citas_gratuitas' = (citas_gratuitas \ viejas) \cup nuevas
                 /\ IF nuevas = {}
                    THEN Responder(req, 404, {}, "ninguno")
                    ELSE Responder(req, 200, nuevas, "ninguno")
    /\ UNCHANGED <<variant, webhookUrl, citas, seq, pending, enviados>>

\* PATCH /api/citas/reset-flags/all
ResetAll ==
    LET req == Req("PATCH", <<"api", "citas", "reset-flags", "all">>, SinBody) IN
    /\ variant = "simple"
    /\ nreq + Cardinality(pending) < MaxReq
    /\ Route(RutasSimple, req) = "resetAll"
    /\ \E falla \in BOOLEAN :
        IF falla
        THEN /\ Responder(req, 500, {}, "ninguno")
             /\ UNCHANGED citas_gratuitas
        ELSE LET nuevas == {FilaReseteada(c) : c \in citas_gratuitas} IN
             /\ citas_gratuitas' = nuevas
             /\ Responder(req, 200, nuevas, "ninguno")
    /\ UNCHANGED <<variant, webhookUrl, citas, seq, pending, enviados>>

\* DELETE /api/citas
EliminarTodas ==
    LET req == Req("DELETE", <<"api", "citas">>, SinBody) IN
    /\ variant = "simple"
    /\ nreq + Cardinality(pending) < MaxReq
    /\ Route(RutasSimple, req) = "eliminarTodas"
    /\ \E falla \in BOOLEAN :
        IF falla
        THEN /\ Responder(req, 500, {}, "ninguno")
             /\ UNCHANGED citas_gratuitas
        ELSE /\ citas_gratuitas' = {}
             /\ Responder(req, 200, {}, "ninguno")
    /\ UNCHANGED <<variant, webhookUrl, citas, seq, pending, enviados>>

\* The flag handlers cut at the await of their query, for requests in
\* flight together: the handler validates, sends its one UPDATE and waits
\* (pc "update"); the database runs the statement, statements one at a time
\* (pc "hecho", or "fallo" when it fails); the handler resumes and answers.
\* PATCH /api/citas/<s>/marcar-recordatorio up to the await
MarcarEnvia(s, b) ==
    LET req == Req("PATCH", <<"api", "citas", s, "marcar-recordatorio">>, b) IN
    /\ variant = "simple"
    /\ nreq + Cardinality(pending) < MaxReq
    /\ Route(RutasSimple, req) = "marcarRecordatorio"
    /\ IF TipoInvalido(b.tipo)
       THEN /\ Responder(req, 400, {}, "ninguno")
            /\ UNCHANGED pending
       ELSE /\ Cardinality(pending) < MaxInFlight
            /\ pending' = pending \cup {Suspendido(req, "update", {}, "ninguno")}
            /\ UNCHANGED <<nreq, resp>>
    /\ UNCHANGED <<variant, webhookUrl, citas, citas_gratuitas, seq, enviados>>

\* PATCH /api/citas/<s>/reset-flags up to the await
ResetEnvia(s) ==
    LET req == Req("PATCH", <<"api", "citas", s, "reset-flags">>, SinBody) IN
    /\ variant = "simple"
    /\ nreq + Cardinality(pending) < MaxReq
    /\ Route(RutasSimple, req) = "resetFlags"
    /\ Cardinality(pending) < MaxInFlight
    /\ pending' = pending \cup {Suspendido(req, "update", {}, "ninguno")}
    /\ UNCHANGED <<variant, webhookUrl, citas, citas_gratuitas, seq, enviados,
                   nreq, resp>>

\* PATCH /api/citas/reset-flags/all up to the await
ResetAllEnvia ==
    LET req == Req("PATCH", <<"api", "citas", "reset-flags", "all">>, SinBody) IN
    /\ variant = "simple"
    /\ nreq + Cardinality(pending) < MaxReq
    /\ Route(RutasSimple, req) = "resetAll"
    /\ Cardinality(pending) < MaxInFlight
    /\ pending' = pending \cup {Suspendido(req, "update", {}, "ninguno")}
    /\ UNCHANGED <<variant, webhookUrl, citas, citas_gratuitas, seq, enviados,
                   nreq, resp>>

\* the rows the UPDATE of a flag request writes, from the rows it matches
FilasDelUpdate(req) ==
    LET h == Route(RutasSimple, req) IN
    CASE h = "marcarRecordatorio" ->
             {FilaMarcada(c, req.body.tipo) : c \in PorId(citas_gratuitas, req.path[3])}
      [] h = "resetFlags" ->
             {FilaReseteada(c) : c \in PorId(citas_gratuitas, req.path[3])}
      [] h = "resetAll" -> {FilaReseteada(c) : c \in citas_gratuitas}

FilasQueToca(req) ==
    IF Route(RutasSimple, req) = "resetAll" THEN citas_gratuitas
    ELSE PorId(citas_gratuitas, req.path[3])

\* the database runs the UPDATE ... RETURNING * of a waiting flag handler
EjecutaUpdate(p) ==
    /\ variant = "simple"
    /\ p \in pending /\ p.pc = "update"
    /\ \E falla \in BOOLEAN :
        IF falla
        THEN /\ pending' = (pending \ {p}) \cup {[p EXCEPT !.pc = "fallo"]}
             /\ UNCHANGED citas_gratuitas
        ELSE /\ citas_gratuitas' =
                    (citas_gratuitas \ FilasQueToca(p.req)) \cup FilasDelUpdate(p.req)
             /\ pending' = (pending \ {p}) \cup
                    {[p EXCEPT !.pc = "hecho", !.rows = FilasDelUpdate(p.req)]}
    /\ UNCHANGED <<variant, webhookUrl, citas, seq, enviados, nreq, resp>>

\* the flag handler resumes after its await and answers
RespondeUpdate(p) ==
    /\ variant = "simple"
    /\ p \in pending /\ p.pc \in {"hecho", "fallo"}
    /\ pending' = pending \ {p}
    /\ IF p.pc = "fallo"
       THEN Responder(p.req, 500, {}, "ninguno")
       ELSE IF p.rows = {} /\ Route(RutasSimple, p.req) # "resetAll"
       THEN Responder(p.req, 404, {}, "ninguno")
       ELSE Responder(p.req, 200, p.rows, "ninguno")
    /\ UNCHANGED <<variant, webhookUrl, citas, citas_gratuitas, seq, enviados>>

BodiesGratuita ==
    {b \in Bodies : b.fecha = SinValor /\ b.hora = SinValor /\ b.estado = ""
                    /\ b.tipo = ""}

BodiesMarcar ==
    {b \in Bodies : b.nombre = "" /\ b.fecha = SinValor /\ b.hora = SinValor
                    /\ b.estado = "" /\ b.tipoFecha = ""}

NextSimple ==
    \/ \E b \in BodiesGratuita : CrearGratuita(b)
    \/ \E s \in IdParams : Eliminar(s)
    \/ \E p \in pending, r \in Resultados : FetchSettles(p, r)
    \/ \E s \in IdParams : ResetFlags(s)
    \/ \E s \in IdParams, b \in BodiesMarcar : MarcarRecordatorio(s, b)
    \/ ResetAll
    \/ EliminarTodas

\* ------------------------------------------------------ specifications
InitFull ==
    /\ variant = "full"
    /\ webhookUrl = FALSE
    /\ citas = {}
    /\ citas_gratuitas = {}
    /\ seq = 0
    /\ pending = {}
    /\ enviados = <<>>
    /\ nreq = 0
    /\ resp = SinRespuesta

InitSimple ==
    /\ variant = "simple"
    /\ webhookUrl \in BOOLEAN
    /\ citas = {}
    /\ citas_gratuitas = {}
    /\ seq = 0
    /\ pending = {}
    /\ enviados = <<>>
    /\ nreq = 0
    /\ resp = SinRespuesta

Init == InitFull \/ InitSimple

Next == NextFull \/ NextSimple

\* either server, requests overlapping freely
Spec == Init /\ [][Next]_vars

SpecFull == InitFull /\ [][NextFull]_vars

SpecSimple == InitSimple /\ [][NextSimple]_vars

\* the full server under create, cancel and get requests, a request being
\* accepted only once the one before has been answered
NextUnaAUna ==
    \/ pending = {} /\ \E b \in BodiesCrear : Crear(b)
    \/ \E p \in pending : CrearInsert(p)
    \/ pending = {} /\ \E s \in IdParams : Get(s)
    \/ pending = {} /\ \E s \in IdParams : Cancelar(s)

SpecUnaAUna == InitFull /\ [][NextUnaAUna]_vars

\* the full server, every endpoint, a request being accepted only once the
\* one before has been answered
NextSerie ==
    \/ pending = {} /\ \E b \in BodiesCrear : Crear(b)
    \/ \E p \in pending : CrearInsert(p)
    \/ pending = {} /\ \E s \in IdParams : Get(s)
    \/ pending = {} /\ \E s \in IdParams, b \in BodiesActualizar : Actualizar(s, b)
    \/ pending = {} /\ \E s \in IdParams : Cancelar(s)

SpecSerie == InitFull /\ [][NextSerie]_vars

\* the full server under create and get requests, any number of them in
\* flight together
NextAltas ==
    \/ \E b \in BodiesCrear : Crear(b)
    \/ \E p \in pending : CrearInsert(p)
    \/ \E s \in IdParams : Get(s)

SpecAltas == InitFull /\ [][NextAltas]_vars

\* the simplified server started on a table that already holds up to
\* MaxFilas rows, their reminder flags in any state ...
Banderas == [r24 : BOOLEAN, r2 : BOOLEAN, post : BOOLEAN]

FilaInicial(id, f) ==
    [id |-> id, nombre |-> "ana", fecha_cita |-> Desplazamiento("24h"),
     r24 |-> f.r24, r2 |-> f.r2, post |-> f.post]

TablasIniciales ==
    UNION {{{FilaInicial(id, t[id]) : id \in 1..k} : t \in [1..k -> Banderas]} :
              k \in 0..MaxFilas}

InitRecordatorios ==
    /\ variant = "simple"
    /\ webhookUrl = FALSE
    /\ citas = {}
    /\ citas_gratuitas \in TablasIniciales
    /\ seq = Cardinality(citas_gratuitas)
    /\ pending = {}
    /\ enviados = <<>>
    /\ nreq = 0
    /\ resp = SinRespuesta

\* ... under create and reminder-flag requests, no webhook URL configured
NextRecordatorios ==
    \/ \E b \in BodiesGratuita : CrearGratuita(b)
    \/ \E s \in IdParams : ResetFlags(s)
    \/ \E s \in IdParams, b \in BodiesMarcar : MarcarRecordatorio(s, b)
    \/ ResetAll

SpecRecordatorios == InitRecordatorios /\ [][NextRecordatorios]_vars

\* the simplified server started on a table of up to MaxFilas rows that
\* have the same reminder flags, in any state ...
TablasParejas ==
    {{FilaInicial(id, f) : id \in 1..k} : k \in 0..MaxFilas, f \in Banderas}

InitConcurrente ==
    /\ variant = "simple"
    /\ webhookUrl = FALSE
    /\ citas = {}
    /\ citas_gratuitas \in TablasParejas
    /\ seq = Cardinality(citas_gratuitas)
    /\ pending = {}
    /\ enviados = <<>>
    /\ nreq = 0
    /\ resp = SinRespuesta

\* ... and under a burst of reminder-flag requests for appointment 1 and for
\* all appointments, taken before any of them is answered
NextConcurrente ==
    \/ nreq = 0 /\ \E b \in BodiesMarcar : MarcarEnvia("1", b)
    \/ nreq = 0 /\ ResetEnvia("1")
    \/ nreq = 0 /\ ResetAllEnvia
    \/ \E p \in pending : EjecutaUpdate(p)
    \/ \E p \in pending : RespondeUpdate(p)

SpecConcurrente == InitConcurrente /\ [][NextConcurrente]_vars

\* Node resumes a handler once the database has answered its query; when,
\* and whether, the webhook endpoint answers is up to the network
FairSpec == Spec /\ WF_vars(\E p \in pending : CrearInsert(p))

\* ---------------------------------------------------------------- claims
\* the step sends a response
Responde == resp'.n # resp.n

Activa(c) == c.estado # "cancelada"

MismaFranja(c, d) == c.fecha = d.fecha /\ c.hora = d.hora

C2_SinDobleReserva ==
    \A c \in citas, d \in citas :
        (c.id # d.id /\ Activa(c) /\ Activa(d)) => ~MismaFranja(c, d)

\* C2 witness: a slot booked again after a cancellation, next to the
\* cancelled appointment
C2_Witness ==
    \E c \in citas, d \in citas :
        c.estado = "cancelada" /\ d.estado = "confirmada" /\ MismaFranja(c, d)

\* C3: full variant: an appointment whose estado is 'cancelada' keeps that
\* estado in every later state, whatever the request.
C3_CanceladaEsTerminal ==
    [][ \A c \in citas : c.estado = "cancelada"
          => \A d \in citas' : d.id = c.id => d.estado = "cancelada" ]_vars

\* C4: simplified variant: a create or delete whose INSERT / DELETE went
\* through is answered 201 / 200 with the affected record whatever the
\* webhook call met (no URL, a 2xx reply, another reply, a throw of fetch),
\* and the step that answers after the fetch has settled leaves the table
\* as it is.
ExitoDe(req) == IF req.method = "POST" THEN 201 ELSE 200

C4_WebhookAislado ==
    [][ (Responde /\ resp'.wh # "ninguno")
        => /\ resp'.status = ExitoDe(resp'.req)
           /\ Cardinality(resp'.rows) = 1
           /\ IF resp'.wh = "sin_url"
              THEN IF resp'.req.method = "POST"
                   THEN /\ citas_gratuitas' = citas_gratuitas \cup resp'.rows
                        /\ resp'.rows \cap citas_gratuitas = {}
                   ELSE /\ citas_gratuitas' = citas_gratuitas \ resp'.rows
                        /\ resp'.rows \subseteq citas_gratuitas
              ELSE /\ citas_gratuitas' = citas_gratuitas
                   /\ \E p \in pending :
                        /\ pending' = pending \ {p}
                        /\ p.req = resp'.req
                        /\ p.rows = resp'.rows ]_vars

\* C4 witness: a create answered 201 although the fetch of the webhook threw
C4_Witness ==
    /\ resp.req.method = "POST" /\ resp.wh = "throw" /\ resp.status = 201
    /\ resp.rows \subseteq citas_gratuitas

\* C5: simplified variant: every create or delete whose INSERT / DELETE
\* went through is eventually answered, also when the webhook call never
\* completes.
C5_RespuestaSinEsperar ==
    \A n \in 1..MaxReq :
        (\E p \in pending : p.n = n /\ p.pc = "fetch")
            ~> ~(\E p \in pending : p.n = n)

\* the :id segment of a request names the row c
Nombra(req, c) == ToString(c.id) = req.path[3]

EsPatch(req, accion) ==
    req.method = "PATCH" /\ Len(req.path) = 4 /\ req.path[4] = accion

\* C6: simplified variant: a marcar-recordatorio answered 200 sets the flag
\* its tipo names to true in the row of its id, leaves the two other flags
\* and the other columns of that row as they were, leaves every other row
\* alone and returns the row as stored.
Marcada(v, tipo) ==
    [v EXCEPT !.r24 = v.r24 \/ tipo = "24h",
              !.r2 = v.r2 \/ tipo = "2h",
              !.post = v.post \/ tipo = "post"]

C6_MarcaSoloUna ==
    [][ (Responde /\ EsPatch(resp'.req, "marcar-recordatorio")
           /\ resp'.status = 200)
        => /\ resp'.req.body.tipo \in {"24h", "2h", "post"}
           /\ \E v \in citas_gratuitas :
                /\ Nombra(resp'.req, v)
                /\ citas_gratuitas' =
                      (citas_gratuitas \ {v})
                          \cup {Marcada(v, resp'.req.body.tipo)}
                /\ resp'.rows = {Marcada(v, resp'.req.body.tipo)} ]_vars

\* C6 witness: '2h' marked on a row created by this run, whose flags are
\* then {24h: false, 2h: true, post: false}
C6_Witness ==
    /\ EsPatch(resp.req, "marcar-recordatorio") /\ resp.status = 200
    /\ resp.req.body.tipo = "2h"
    /\ \E f \in resp.rows :
         /\ f \in citas_gratuitas /\ f.id > MaxFilas
         /\ ~f.r24 /\ f.r2 /\ ~f.post

\* C7: simplified variant: a reset-flags for the id of a stored row, its
\* three flags in any state, is answered 200 (500 when the query fails),
\* returns that row with the three flags false, stores it so and leaves
\* every other row alone.
SinBanderas(v) == [v EXCEPT !.r24 = FALSE, !.r2 = FALSE, !.post = FALSE]

C7_ResetDeUna ==
    [][ (Responde /\ EsPatch(resp'.req, "reset-flags") /\ resp'.status # 500)
        => \A v \in citas_gratuitas :
             Nombra(resp'.req, v)
             => /\ resp'.status = 200
                /\ resp'.rows = {SinBanderas(v)}
                /\ citas_gratuitas' =
                      (citas_gratuitas \ {v}) \cup {SinBanderas(v)} ]_vars

\* C7 witness: a row reset to all false while another row keeps all three
\* flags set
C7_Witness ==
    /\ EsPatch(resp.req, "reset-flags") /\ resp.status = 200
    /\ \E f \in resp.rows, g \in citas_gratuitas :
         /\ f \in citas_gratuitas /\ ~f.r24 /\ ~f.r2 /\ ~f.post
         /\ g.id # f.id /\ g.r24 /\ g.r2 /\ g.post

\* C8: simplified variant: a reset-flags/all on a table of N rows, their
\* flags in any state, is answered 200 (500 when the query fails) with
\* exactly N records; afterwards the table holds the same rows with the
\* three flags false, none added and none removed.
EsResetAll(req) ==
    req.method = "PATCH" /\ req.path = <<"api", "citas", "reset-flags", "all">>

C8_ResetDeTodas ==
    [][ (Responde /\ EsResetAll(resp'.req) /\ resp'.status # 500)
        => /\ resp'.status = 200
           /\ Cardinality(resp'.rows) = Cardinality(citas_gratuitas)
           /\ resp'.rows = citas_gratuitas'
           /\ citas_gratuitas' = {SinBanderas(v) : v \in citas_gratuitas}
           /\ \A c \in citas_gratuitas' : ~c.r24 /\ ~c.r2 /\ ~c.post
           /\ {c.id : c \in citas_gratuitas'} = {c.id : c \in citas_gratuitas}
        ]_vars

\* C8 witness: a bulk reset that returned two records, one of them a row
\* created by this run
C8_Witness ==
    /\ EsResetAll(resp.req) /\ resp.status = 200
    /\ Cardinality(resp.rows) = 2
    /\ resp.rows = citas_gratuitas
    /\ \E f \in resp.rows : f.id > MaxFilas

\* C9 as claimed: a request to an endpoint that takes an id, with an id that
\* no stored record has, is answered 404 whatever else it carries (the
\* answer 500 of a failed query set aside), changes no table and sends no
\* webhook event.
PorIdHandlers ==
    {"obtener", "actualizar", "cancelar", "eliminar", "resetFlags",
     "marcarRecordatorio"}

Rutas == IF variant = "full" THEN RutasFull ELSE RutasSimple

Tabla == IF variant = "full" THEN citas ELSE citas_gratuitas

\* the step runs the query of a request for an id that no stored record
\* has, and answers it
RespondeIdAusente ==
    /\ Responde
    /\ pending' = pending
    /\ Route(Rutas, resp'.req) \in PorIdHandlers
    /\ \A c \in Tabla : ToString(c.id) # resp'.req.path[3]

SinEfecto ==
    /\ citas' = citas
    /\ citas_gratuitas' = citas_gratuitas
    /\ enviados' = enviados

C9_IdAusenteSiempre404 ==
    [][ RespondeIdAusente
        => (resp'.status # 500 => resp'.status = 404) /\ SinEfecto ]_vars

\* C9 amended: such a request is answered 404, or 400 when it is a
\* marcar-recordatorio whose tipo is not one of 24h, 2h, post (the tipo is
\* validated before the lookup), or 500 when the query fails; it changes no
\* table and sends no webhook event.
C9_IdAusente ==
    [][ RespondeIdAusente
        => /\ IF Route(Rutas, resp'.req) = "marcarRecordatorio"
                 /\ resp'.req.body.tipo \notin {"24h", "2h", "post"}
              THEN resp'.status = 400
              ELSE resp'.status \in {404, 500}
           /\ SinEfecto ]_vars

\* C9 witness: an update for an absent id answered 404 while the table
\* holds another record
C9_Witness ==
    /\ resp.req.method = "PUT" /\ resp.status = 404
    /\ citas # {}
    /\ \A c \in citas : ToString(c.id) # resp.req.path[3]

\* C10: full variant: GET /api/citas/pendientes is answered 200 with exactly
\* the stored appointments that are 'confirmada' and dated today or later
\* (the answer 500 of a failed query set aside).
C10_PendientesResponde ==
    (resp.req.method = "GET" /\ resp.req.path = <<"api", "citas", "pendientes">>
       /\ resp.status # 500)
    => /\ resp.status = 200
       /\ resp.rows = {c \in citas : c.estado = "confirmada" /\ c.fecha >= Hoy}


\* C11: in both variants a request that fails validation is answered 400 by
\* the step that takes it, with no table changed and no webhook event sent:
\* a full create without nombre, fecha or hora, a simplified create without
\* nombre or with a tipoFecha that is not 24h, 2h, 1h_pasado (an absent one
\* included), a marcar-recordatorio whose tipo is not 24h, 2h, post.
Invalida(req) ==
    \/ /\ variant = "full" /\ req.method = "POST"
       /\ (req.body.nombre = "" \/ req.body.fecha = SinValor
             \/ req.body.hora = SinValor)
    \/ /\ variant = "simple" /\ req.method = "POST"
       /\ (req.body.nombre = ""
             \/ req.body.tipoFecha \notin {"24h", "2h", "1h_pasado"})
    \/ /\ EsPatch(req, "marcar-recordatorio")
       /\ req.body.tipo \notin {"24h", "2h", "post"}

C11_ValidacionAntes ==
    [][ (Responde /\ Invalida(resp'.req))
        => resp'.status = 400 /\ SinEfecto /\ pending' = pending ]_vars

\* C11 witness: a marcar-recordatorio with tipo '1h' for a stored row,
\* answered 400, the row still unmarked
C11_Witness ==
    /\ EsPatch(resp.req, "marcar-recordatorio") /\ resp.status = 400
    /\ resp.req.body.tipo = "1h"
    /\ \E c \in citas_gratuitas :
         Nombra(resp.req, c) /\ ~c.r24 /\ ~c.r2 /\ ~c.post

\* C12: full variant, create and get requests interleaved in any way: a
\* create with every required field whose (fecha, hora) is that of no stored
\* active appointment is never refused (it is answered 201, or 500 when a
\* query fails); a create answered 201 has inserted one record under an id no
\* stored record has, with the fields of its body; a stored record stays as
\* it was inserted, and GET /api/citas/<id> with its id returns it.
C12_AltasDistintas ==
    [][ /\ (Responde /\ resp'.req.method = "POST" /\ resp'.status = 409)
           => \E c \in citas : Activa(c) /\ MismaFranja(c, resp'.req.body)
        /\ (Responde /\ resp'.req.method = "POST"
              /\ ~FaltanCamposFull(resp'.req.body))
           => resp'.status \in {201, 409, 500}
        /\ (Responde /\ resp'.req.method = "POST" /\ resp'.status = 201)
           => \E f \in resp'.rows :
                /\ resp'.rows = {f}
                /\ \A c \in citas : c.id # f.id
                /\ citas' = citas \cup {f}
                /\ f.nombre = resp'.req.body.nombre
                /\ MismaFranja(f, resp'.req.body)
        /\ citas \subseteq citas'
        /\ \A c \in citas :
             (Responde /\ resp'.req.method = "GET"
                /\ resp'.req.path = <<"api", "citas", ToString(c.id)>>
                /\ resp'.status # 500)
             => resp'.status = 200 /\ resp'.rows = {c} ]_vars

\* C12 witness: two creates for different slots both inserted, and
\* GET /api/citas/2 returning the second record
C12_Witness ==
    /\ resp.req.method = "GET" /\ resp.status = 200 /\ resp.n = 3
    /\ \E c \in citas, d \in citas :
         /\ c.id = 1 /\ d.id = 2 /\ ~MismaFranja(c, d)
         /\ c.estado = "confirmada" /\ d.estado = "confirmada"
         /\ resp.rows = {d}

\* C13: in both variants every row a step adds to the table is in the
\* default state (full: estado 'confirmada', whatever estado the body
\* carries; simplified: the three reminder flags false) and is the row of
\* the 201 response, sent by that step or, when a webhook is awaited first,
\* held by the suspended handler; every 201 response carries exactly one
\* row, in the default state, which is that inserted row.
PorDefecto(f) ==
    IF variant = "full" THEN f.estado = "confirmada"
    ELSE ~f.r24 /\ ~f.r2 /\ ~f.post

C13_EstadoInicial ==
    [][ /\ \A f \in Tabla' :
             (\A c \in Tabla : c.id # f.id)
             => /\ PorDefecto(f)
                /\ \/ Responde /\ resp'.status = 201 /\ resp'.rows = {f}
                   \/ \E p \in pending' \ pending :
                        p.req.method = "POST" /\ p.rows = {f}
        /\ (Responde /\ resp'.status = 201)
           => \E f \in resp'.rows :
                /\ resp'.rows = {f}
                /\ PorDefecto(f)
                /\ resp'.req.method = "POST"
                /\ IF resp'.wh \in Resultados
                   THEN \E p \in pending \ pending' :
                          p.req = resp'.req /\ p.rows = {f}
                   ELSE f \in Tabla' /\ \A c \in Tabla : c.id # f.id ]_vars

\* C13 witness: a full create whose body carries estado 'cancelada',
\* answered 201 with the stored row, its estado 'confirmada'
C13_Witness ==
    /\ variant = "full" /\ resp.status = 201
    /\ resp.req.body.estado = "cancelada"
    /\ \E f \in resp.rows : f \in citas /\ f.estado = "confirmada"

\* C14: full variant, creates in flight together: the conflict query and the
\* INSERT of a create are two steps.  The step of the query leaves the table
\* as it is; the step of the INSERT does not look at the table again: unless
\* the INSERT fails (500), it inserts the 'confirmada' row and answers 201,
\* also when another create has taken the slot in between.
C14_InsertSinRevisar ==
    [][ /\ (pending' # pending /\ ~Responde) => citas' = citas
        /\ \A p \in pending :
             (p \notin pending' /\ resp'.status # 500)
             => /\ Responde /\ resp'.req = p.req /\ resp'.status = 201
                /\ \E f \in resp'.rows :
                     /\ resp'.rows = {f}
                     /\ f.estado = "confirmada"
                     /\ MismaFranja(f, p.req.body)
                     /\ citas' = citas \cup {f}
                     /\ \A c \in citas : c.id # f.id ]_vars

\* C14 witness: two 'confirmada' appointments in one slot, the second one
\* just answered 201 (create and get requests only: every stored row comes
\* from a create answered 201)
C14_Witness ==
    /\ resp.req.method = "POST" /\ resp.status = 201
    /\ \E f \in resp.rows, c \in citas :
         /\ f \in citas /\ c.id # f.id /\ MismaFranja(c, f)
         /\ c.estado = "confirmada" /\ f.estado = "confirmada"

C16_EstadoValido ==
    \A c \in citas : c.estado \in {"confirmada", "cancelada"}

\* C17: simplified variant: for every stored row and every sequence of up to
\* three valid tipos, marking the row once per element of the sequence, in
\* the order of the sequence, gives the row whose true flags are those it had
\* plus those the sequence names: a repeated tipo changes nothing and the
\* order of the tipos does not matter.
RECURSIVE MarcarTodos(_, _)
MarcarTodos(v, ts) ==
    IF ts = <<>> THEN v
    ELSE MarcarTodos(FilaMarcada(v, Head(ts)), Tail(ts))

SecuenciasDeTipos ==
    UNION {[1..k -> TiposRecordatorio] : k \in 0..Cardinality(TiposRecordatorio)}

ConMarcas(v, tipos) ==
    [v EXCEPT !.r24 = @ \/ "24h" \in tipos,
              !.r2 = @ \/ "2h" \in tipos,
              !.post = @ \/ "post" \in tipos]

C17_MarcarIdempotente ==
    \A v \in citas_gratuitas, ts \in SecuenciasDeTipos :
        MarcarTodos(v, ts) = ConMarcas(v, {ts[i] : i \in DOMAIN ts})

\* C17 witness: three marcar-recordatorio requests answered, the last one
\* for '24h' with 200, its row stored with the three flags true
C17_Witness ==
    /\ EsPatch(resp.req, "marcar-recordatorio") /\ resp.status = 200
    /\ resp.n = 3 /\ resp.req.body.tipo = "24h"
    /\ \E f \in resp.rows : f \in citas_gratuitas /\ f.r24 /\ f.r2 /\ f.post

\* an id that was given to a record which is no longer stored
Eliminado(i) == i \in 1..seq /\ \A c \in citas_gratuitas : c.id # i

\* the step runs and answers a reset-flags, marcar-recordatorio or delete
\* request on the id of a removed record
RespondeIdEliminado ==
    /\ Responde
    /\ pending' = pending
    /\ Route(RutasSimple, resp'.req)
           \in {"eliminar", "resetFlags", "marcarRecordatorio"}
    /\ \E i \in 1..seq : Eliminado(i) /\ resp'.req.path[3] = ToString(i)

\* ids are given in increasing order and a removed record stays removed
IdsSinReuso ==
    /\ \A c \in citas_gratuitas : c.id \in 1..seq
    /\ seq' >= seq
    /\ \A f \in citas_gratuitas' :
         (\A c \in citas_gratuitas : c.id # f.id) => f.id > seq
    /\ \A i \in 1..seq :
         Eliminado(i) => \A f \in citas_gratuitas' : f.id # i

\* C18 as stated: simplified variant: once a record has been removed by
\* DELETE /api/citas/<id> or DELETE /api/citas, every later reset-flags,
\* marcar-recordatorio or delete request on its id is answered 404 (500 when
\* the query fails) and no create is given that id again.
C18_EliminadaSiempre404 ==
    [][ /\ variant = "simple" => IdsSinReuso
        /\ (variant = "simple" /\ RespondeIdEliminado /\ resp'.status # 500)
           => resp'.status = 404 /\ SinEfecto ]_vars

\* C18 amended: ... is answered 404, except that a marcar-recordatorio whose
\* tipo is not one of 24h, 2h, post is answered 400 and a request whose query
\* fails is answered 500; the table is left as it was, no event is sent, and
\* no create is given that id again.
C18_EliminadaAbsorbe ==
    [][ /\ variant = "simple" => IdsSinReuso
        /\ (variant = "simple" /\ RespondeIdEliminado /\ resp'.status # 500)
           => /\ resp'.status =
                   IF /\ EsPatch(resp'.req, "marcar-recordatorio")
                      /\ resp'.req.body.tipo \notin {"24h", "2h", "post"}
                   THEN 400 ELSE 404
              /\ SinEfecto ]_vars

\* C18 witness: record 1 was created and removed, and a marcar-recordatorio
\* for '2h' on id 1 is answered 404
C18_Witness ==
    /\ variant = "simple" /\ seq >= 1 /\ Eliminado(1)
    /\ EsPatch(resp.req, "marcar-recordatorio") /\ resp.req.path[3] = "1"
    /\ resp.req.body.tipo = "2h" /\ resp.status = 404

\* C19: simplified variant with a webhook URL: a step posts at most one
\* event, and only the step of a handler that has just inserted a row
\* ('cita_creada', with the id of that row) or removed the row of
\* DELETE /api/citas/<id> ('cita_eliminada', with its id), the handler then
\* waiting for the fetch; every such insert or removal posts its event; no
\* step that sends a response posts an event, so that the end of a fetch,
\* flag requests, delete-all and the requests answered 400, 404 or 500 post
\* none, the latter being answered by the step that took them.
C19_EventosWebhook ==
    [][ webhookUrl =>
        /\ enviados' # enviados
           => /\ ~Responde
              /\ \E p \in pending' \ pending, f \in citas_gratuitas \cup citas_gratuitas' :
                   /\ pending' = pending \cup {p}
                   /\ p.rows = {f}
                   /\ \/ /\ enviados' = Append(enviados,
                                [evento |-> "cita_creada", id |-> f.id])
                         /\ p.req.method = "POST"
                         /\ citas_gratuitas' = citas_gratuitas \cup {f}
                         /\ \A c \in citas_gratuitas : c.id # f.id
                      \/ /\ enviados' = Append(enviados,
                                [evento |-> "cita_eliminada", id |-> f.id])
                         /\ p.req.method = "DELETE"
                         /\ p.req.path = <<"api", "citas", ToString(f.id)>>
                         /\ f \in citas_gratuitas
                         /\ citas_gratuitas' = citas_gratuitas \ {f}
        /\ (\E f \in citas_gratuitas' : \A c \in citas_gratuitas : c.id # f.id)
           => enviados' # enviados
        /\ (~Responde /\ citas_gratuitas' # citas_gratuitas)
           => enviados' # enviados
        /\ Responde => enviados' = enviados
        /\ (Responde /\ resp'.status \in {400, 404, 500})
           => pending' = pending ]_vars

\* C19 witness: a create and the delete of its record, one event each, the
\* delete answered 200 after the webhook endpoint refused its event
C19_Witness ==
    /\ webhookUrl /\ pending = {}
    /\ enviados = <<[evento |-> "cita_creada", id |-> 1],
                    [evento |-> "cita_eliminada", id |-> 1]>>
    /\ resp.req.method = "DELETE" /\ resp.status = 200 /\ resp.wh = "no_ok"

\* C20: simplified variant, flag requests in flight together, their UPDATE
\* statements run by the database in any order: as long as no request has
\* been answered yet and every request taken is a marcar-recordatorio, the
\* flag of every request whose UPDATE has run is true in its row (no mark is
\* lost to another one); and when the two requests taken so far are a
\* marcar-recordatorio for tipo t and a reset (of the same row, or of all
\* rows), both UPDATEs run, the row has no flag true (reset last) or exactly
\* the flag of t true (mark last), the two sequential outcomes.
EsReset(req) ==
    Route(RutasSimple, req) \in {"resetFlags", "resetAll"}

C20_SinActualizacionPerdida ==
    nreq = 0 =>
      /\ (\A q \in pending : EsPatch(q.req, "marcar-recordatorio"))
         => \A p \in pending, c \in citas_gratuitas :
              (p.pc = "hecho" /\ Nombra(p.req, c))
              => c[Columna(p.req.body.tipo)]
      /\ \A p \in pending, q \in pending, c \in citas_gratuitas :
           ( /\ pending = {p, q} /\ p.pc = "hecho" /\ q.pc = "hecho"
             /\ EsPatch(p.req, "marcar-recordatorio") /\ Nombra(p.req, c)
             /\ EsReset(q.req)
             /\ (Route(RutasSimple, q.req) = "resetFlags" => Nombra(q.req, c)) )
           => c \in {SinBanderas(c),
                     ConMarcas(SinBanderas(c), {p.req.body.tipo})}

\* C20 witness: marcar-recordatorio '24h' and '2h' on row 1 in flight
\* together, both UPDATEs run, none answered yet, the row with both flags
\* true and the third false
C20_Witness ==
    /\ nreq = 0
    /\ \E p \in pending, q \in pending, c \in citas_gratuitas :
         /\ pending = {p, q} /\ p.pc = "hecho" /\ q.pc = "hecho"
         /\ EsPatch(p.req, "marcar-recordatorio") /\ p.req.body.tipo = "24h"
         /\ EsPatch(q.req, "marcar-recordatorio") /\ q.req.body.tipo = "2h"
         /\ Nombra(p.req, c) /\ Nombra(q.req, c)
         /\ c.r24 /\ c.r2 /\ ~c.post

====
